---- MODULE Spec2Model ----
\* Model of pycbc/waveform/utils.py: unwrap_phase, phase_from_polarizations
\* and amplitude_from_polarizations.
\*
\* Numbers.  Input samples are integers on a fixed grid; a square root is
\* kept exactly, as the real number sgn * sqrt(sq); the one non-finite
\* float the code can meet, NaN (0.0/0.0 in the polarization ratio), is kept
\* as a value of its own with IEEE behaviour: arithmetic on it gives NaN and
\* every comparison with it is false.  Phases are measured in thousandths of
\* pi (LAL_PI = 1000), so that 0.7*LAL_PI is exactly 700 and the range of
\* arctan is -500..500.
\*
\* Objects.  Arrays live in a heap (a sequence of arrays, an object being its
\* index), so that copying, aliasing and in-place updates are told apart.
EXTENDS Integers, Sequences, FiniteSets

VARIABLES pc, op, heap, given, h_plus, h_cross, arg, vec, discont, offset, nvec,
          total_offset, pval, index, it, p_wrapped, p, result

vars == <<pc, op, heap, given, h_plus, h_cross, arg, vec, discont, offset, nvec,
          total_offset, pval, index, it, p_wrapped, p, result>>

\* ---------------------------------------------------------------- bounds

\* Longest sequence handed to unwrap_phase directly.
MaxLen == 4

\* Longest pair of polarizations handed to phase_from_polarizations.
MaxPolLen == 3

\* Longest pair of polarizations handed to amplitude_from_polarizations.
MaxAmpLen == 2

\* Sample values, thresholds and increments of the direct calls, in tenths:
\* they hold [0, d, 2d] for d = 1, the scenario [0, 1, 2] with discont 0.7 and
\* offset 1, and steps of exactly 0.7 up and down.
Vals == {-7, 0, 7, 10, 20}
Disconts == {7, 10}
Offsets == {-10, 0, 3, 10}

\* Polarization samples of the phase calls.  The ratios reach every grid
\* phase: 0/0 (NaN), x/0 (an infinity), and 0, 1/2, 1, 2 with either sign.
PlusVals == -2..2
CrossVals == {-1, 0, 2}

\* Polarization samples of the amplitude calls (3 and 4 give the norm 5).
AmpPlusVals == {-3, 0, 1, 3}
AmpCrossVals == {-4, 0, 2, 4}

\* (delta_t, epoch) of a time series.
Metas == {<<1, 0>>, <<2, 5>>}

\* All sequences over S of length 0..n.
SeqsUpTo(S, n) == UNION {[1..k -> S] : k \in 0..n}

\* ------------------------------------------------------ float arithmetic

\* The float NaN, a value outside every range of the model.
NaN == 1000000

\* a + b
fadd(a, b) == IF a = NaN \/ b = NaN THEN NaN ELSE a + b

\* a - b
fsub(a, b) == IF a = NaN \/ b = NaN THEN NaN ELSE a - b

\* -a
fneg(a) == IF a = NaN THEN NaN ELSE 0 - a

\* a >= b (false when either is NaN)
fge(a, b) == a # NaN /\ b # NaN /\ a >= b

\* abs(a), elementwise numpy absolute value
fabs(a) == IF a = NaN THEN NaN ELSE IF a < 0 THEN 0 - a ELSE a

\* Python's None and a held value, for pval.
None == <<>>
Some(v) == <<v>>

\* ------------------------------------------------------------------ heap

\* The object created next.
NewId(h) == Len(h) + 1

\* Mutant of deepcopy: nvec = vec, an alias instead of a copy.
deepcopy_alias(h, id) == <<h, id>>

\* copy.deepcopy(vec): a new object with the same contents; the heap after
\* the copy and the object returned.
deepcopy(h, id) == <<Append(h, h[id]), NewId(h)>>

\* ------------------------------------------------- time series (pycbc.types)

\* TimeSeries(initial_array, delta_t=..., epoch=...): the array with its
\* sampling interval and start time.
TimeSeries(data, delta_t, epoch) ==
    [data |-> data, delta_t |-> delta_t, epoch |-> epoch]

\* No time series.
NoSeries == TimeSeries(0, 0, 0)

\* A bare array, returned without metadata.
Bare(id) == TimeSeries(id, 0, 0)

\* h_plus / h_cross, elementwise, each quotient kept as the pair it came from.
TSDivide(a, b) == [i \in DOMAIN a |-> <<a[i], b[i]>>]

\* squared_norm(): the elementwise squared magnitude.
squared_norm(a) == [i \in DOMAIN a |-> a[i] * a[i]]

\* a + b, elementwise.
TSAdd(a, b) == [i \in DOMAIN a |-> a[i] + b[i]]

\* ---------------------------------------------------------- unwrap_phase

\* Mutant of Jump: the second test dropped, every other step corrected upward.
Jump_else(total, pv, val, d, o) ==
    IF pv = None THEN total
    ELSE IF fge(fsub(val, pv[1]), d) THEN fsub(total, o)
    ELSE fadd(total, o)

\* Mutant of Jump: > in place of >=.
Jump_strict(total, pv, val, d, o) ==
    IF pv = None THEN total
    ELSE IF fge(fsub(val, pv[1]), d) /\ fsub(val, pv[1]) # d THEN fsub(total, o)
    ELSE IF fge(fsub(pv[1], val), d) /\ fsub(pv[1], val) # d THEN fadd(total, o)
    ELSE total

\* Mutant of Jump: both directions corrected downward.
Jump_same_sign(total, pv, val, d, o) ==
    IF pv = None THEN total
    ELSE IF fge(fsub(val, pv[1]), d) THEN fsub(total, o)
    ELSE IF fge(fsub(pv[1], val), d) THEN fsub(total, o)
    ELSE total

\* Lines 60-65: total_offset after looking at val, given the previous raw
\* value pv (None at the first sample).
Jump(total, pv, val, d, o) ==
    IF pv = None THEN total
    ELSE IF fge(fsub(val, pv[1]), d) THEN fsub(total, o)
    ELSE IF fge(fsub(pv[1], val), d) THEN fadd(total, o)
    ELSE total

\* Line 67: nvec[index] += total_offset (index counts from 0).
AddAt(a, i, total) == [a EXCEPT ![i + 1] = fadd(@, total)]

\* Mutant of NextIndex: the increment forgotten.
NextIndex_stuck(i) == i

\* Line 68: index += 1.
NextIndex(i) == i + 1

\* Mutant of NextPval: the corrected value remembered.
NextPval_corrected(val, corrected) == Some(corrected)

\* Line 69: pval = val, the raw value just read, not the corrected one.
NextPval(val, corrected) == Some(val)

\* The frame of unwrap_phase at entry (lines 55-58): nvec is a deep copy.
EnterUnwrap(h, v, d, o) ==
    /\ heap' = deepcopy(h, v)[1]
    /\ vec' = v
    /\ nvec' = deepcopy(h, v)[2]
    /\ arg' = h[v]
    /\ discont' = d
    /\ offset' = o
    /\ total_offset' = 0
    /\ pval' = None
    /\ index' = 0
    /\ it' = 0
    /\ pc' = "unwrap"

\* A caller hands a sequence to unwrap_phase.
CallUnwrap ==
    /\ pc = "idle"
    /\ \E S \in SeqsUpTo(Vals, MaxLen), d \in Disconts, o \in Offsets :
          /\ given' = <<S>>
          /\ EnterUnwrap(<<S>>, 1, d, o)
    /\ op' = "unwrap_phase"
    /\ UNCHANGED <<h_plus, h_cross, p_wrapped, p, result>>

\* One pass of the loop of lines 59-69; `it` is the position of the iterator
\* of `for val in vec`, which reads the object vec itself.
UnwrapStep ==
    /\ pc = "unwrap"
    /\ it < Len(heap[vec])
    /\ LET val == heap[vec][it + 1]
           total == Jump(total_offset, pval, val, discont, offset)
           stored == AddAt(heap[nvec], index, total)
       IN /\ total_offset' = total
          /\ heap' = [heap EXCEPT ![nvec] = stored]
          /\ pval' = NextPval(val, stored[index + 1])
    /\ index' = NextIndex(index)
    /\ it' = it + 1
    /\ UNCHANGED <<pc, op, given, h_plus, h_cross, arg, vec, discont, offset, nvec,
                   p_wrapped, p, result>>

\* Line 71: return nvec, to the caller of a direct call or to line 91.
UnwrapReturn ==
    /\ pc = "unwrap"
    /\ it >= Len(heap[vec])
    /\ IF op = "unwrap_phase"
       THEN /\ pc' = "done"
            /\ result' = Bare(nvec)
            /\ p' = p
       ELSE /\ pc' = "normalize"
            /\ p' = nvec
            /\ result' = result
    /\ UNCHANGED <<op, heap, given, h_plus, h_cross, arg, vec, discont, offset, nvec,
                   total_offset, pval, index, it, p_wrapped>>

\* ------------------------------------------------ phase_from_polarizations

\* lal.LAL_PI, in thousandths of pi.
LAL_PI == 1000

\* arctan of the positive ratio n/d, rounded to the grid.
AtanGrid(n, d) ==
    CASE 2 * n = d -> 148
      [] n = d -> 250
      [] n = 2 * d -> 352

\* numpy.arctan of the float quotient q[1]/q[2]: 0/0 is NaN, x/0 an infinity
\* of x's sign, whose arctan is +-pi/2.
arctan(q) ==
    LET n == q[1]
        d == q[2]
        an == IF n < 0 THEN 0 - n ELSE n
        ad == IF d < 0 THEN 0 - d ELSE d
    IN IF d = 0
       THEN (IF n = 0 THEN NaN ELSE IF n > 0 THEN LAL_PI \div 2
                                    ELSE 0 - (LAL_PI \div 2))
       ELSE IF n = 0 THEN 0
       ELSE IF (n > 0) = (d > 0) THEN AtanGrid(an, ad)
       ELSE 0 - AtanGrid(an, ad)

\* Line 90: the wrapped phase, a new array.
WrappedPhase(hp, hc) ==
    LET q == TSDivide(hp, hc) IN [i \in DOMAIN q |-> arctan(q[i])]

\* Line 91: the threshold 0.7 * lal.LAL_PI.
PhaseDiscont == (7 * LAL_PI) \div 10

\* Mutant of PhaseOffset: a full turn.
PhaseOffset_2pi == 2 * LAL_PI

\* Line 91: the increment lal.LAL_PI.
PhaseOffset == LAL_PI

\* Line 92: p += -p[0], with p[0] read once, before the update.
Normalize(a) == LET first == a[1] IN [i \in DOMAIN a |-> fadd(a[i], fneg(first))]

\* Mutant of Magnitude: abs forgotten.
Magnitude_none(a) == a

\* Line 93: abs(p), a new array.
Magnitude(a) == [i \in DOMAIN a |-> fabs(a[i])]

\* A caller hands two polarizations of equal length to
\* phase_from_polarizations: lines 90-91 up to the entry of unwrap_phase.
CallPhase ==
    /\ pc = "idle"
    /\ \E k \in 0..MaxPolLen :
          \E hp \in [1..k -> PlusVals], hc \in [1..k -> CrossVals],
             mp \in Metas, mc \in Metas :
             /\ h_plus' = TimeSeries(1, mp[1], mp[2])
             /\ h_cross' = TimeSeries(2, mc[1], mc[2])
             /\ given' = <<hp, hc>>
             /\ p_wrapped' = 3
             /\ EnterUnwrap(<<hp, hc, WrappedPhase(hp, hc)>>, 3,
                            PhaseDiscont, PhaseOffset)
    /\ op' = "phase_from_polarizations"
    /\ UNCHANGED <<p, result>>

\* Line 92.  p[0] of an empty array raises IndexError.
PhaseNormalize ==
    /\ pc = "normalize"
    /\ IF Len(heap[p]) = 0
       THEN /\ pc' = "raised"
            /\ heap' = heap
       ELSE /\ pc' = "return"
            /\ heap' = [heap EXCEPT ![p] = Normalize(@)]
    /\ UNCHANGED <<op, given, h_plus, h_cross, arg, vec, discont, offset, nvec,
                   total_offset, pval, index, it, p_wrapped, p, result>>

\* Line 93.
PhaseReturn ==
    /\ pc = "return"
    /\ heap' = Append(heap, Magnitude(heap[p]))
    /\ result' = TimeSeries(NewId(heap), h_plus.delta_t, h_plus.epoch)
    /\ pc' = "done"
    /\ UNCHANGED <<op, given, h_plus, h_cross, arg, vec, discont, offset, nvec,
                   total_offset, pval, index, it, p_wrapped, p>>

\* ------------------------------------------- amplitude_from_polarizations

\* The real number sgn * sqrt(sq), sgn in {-1, 0, 1} and sgn = 0 exactly when
\* sq = 0: the form in which roots are kept, exactly and without rounding.
Surd(sgn, sq) == [sgn |-> sgn, sq |-> sq]

\* The integer k as such a real.
Real(k) == Surd(IF k > 0 THEN 1 ELSE IF k < 0 THEN 0 - 1 ELSE 0, k * k)

\* x ** 0.5 of a non-negative x: the principal root, sqrt(13) for 13 and
\* 5 for 25 (the code returns the float nearest to it).
sqrt(x) == Surd(IF x = 0 THEN 0 ELSE 1, x)

\* Mutant of amp: h_plus squared twice, h_cross never read.
amp_plus_only(hp, hc) ==
    LET s == TSAdd(squared_norm(hp), squared_norm(hp))
    IN [i \in DOMAIN s |-> sqrt(s[i])]

\* Line 112.
amp(hp, hc) ==
    LET s == TSAdd(squared_norm(hp), squared_norm(hc))
    IN [i \in DOMAIN s |-> sqrt(s[i])]

\* Line 113: the metadata handed to the constructor.
amp_meta(tp, tc) == <<tp.delta_t, tp.epoch>>

\* amplitude_from_polarizations, lines 112-113, on two polarizations of
\* equal length.
CallAmp ==
    /\ pc = "idle"
    /\ \E k \in 0..MaxAmpLen :
          \E hp \in [1..k -> AmpPlusVals], hc \in [1..k -> AmpCrossVals],
             mp \in Metas, mc \in Metas :
             LET tp == TimeSeries(1, mp[1], mp[2])
                 tc == TimeSeries(2, mc[1], mc[2])
                 m == amp_meta(tp, tc)
             IN /\ given' = <<hp, hc>>
                /\ h_plus' = tp
                /\ h_cross' = tc
                /\ heap' = <<hp, hc, amp(hp, hc)>>
                /\ result' = TimeSeries(3, m[1], m[2])
    /\ op' = "amplitude_from_polarizations"
    /\ pc' = "done"
    /\ UNCHANGED <<arg, vec, discont, offset, nvec, total_offset, pval,
                   index, it, p_wrapped, p>>

\* ------------------------------------------------ the functions as values

\* The loop of lines 59-69 run to its end: v the input, nv the copy being
\* written, pos the iterator's position.
RECURSIVE Scan(_, _, _, _, _, _, _, _)
Scan(v, nv, total, pv, idx, pos, d, o) ==
    IF pos >= Len(v) THEN nv
    ELSE LET val == v[pos + 1]
             t == Jump(total, pv, val, d, o)
             stored == AddAt(nv, idx, t)
         IN Scan(v, stored, t, NextPval(val, stored[idx + 1]), NextIndex(idx),
                 pos + 1, d, o)

\* unwrap_phase(vec, discont, offset): the contents of the array returned.
unwrap_phase(v, d, o) == Scan(v, v, 0, None, 0, 0, d, o)

\* phase_from_polarizations(h_plus, h_cross): the samples of the series
\* returned, for non-empty arrays of equal length.
phase_from_polarizations(hp, hc) ==
    Magnitude(Normalize(unwrap_phase(WrappedPhase(hp, hc), PhaseDiscont, PhaseOffset)))

\* amplitude_from_polarizations(h_plus, h_cross): the samples of the series
\* returned, for arrays of equal length.
amplitude_from_polarizations(hp, hc) == amp(hp, hc)

\* The stepwise machine returns what the functions compute.
MachineAgrees ==
    pc = "done" =>
        heap[result.data] =
            CASE op = "unwrap_phase" -> unwrap_phase(given[1], discont, offset)
              [] op = "phase_from_polarizations" ->
                    phase_from_polarizations(given[1], given[2])
              [] op = "amplitude_from_polarizations" ->
                    amplitude_from_polarizations(given[1], given[2])

\* ------------------------------------------------------------ the machine

Init ==
    /\ pc = "idle"
    /\ op = "none"
    /\ heap = <<>>
    /\ given = <<>>
    /\ h_plus = NoSeries
    /\ h_cross = NoSeries
    /\ arg = <<>>
    /\ vec = 0
    /\ discont = 0
    /\ offset = 0
    /\ nvec = 0
    /\ total_offset = 0
    /\ pval = None
    /\ index = 0
    /\ it = 0
    /\ p_wrapped = 0
    /\ p = 0
    /\ result = NoSeries

Next ==
    \/ CallUnwrap
    \/ UnwrapStep
    \/ UnwrapReturn
    \/ CallPhase
    \/ PhaseNormalize
    \/ PhaseReturn
    \/ CallAmp

Spec == Init /\ [][Next]_vars

\* ---------------------------------------------------------------- claims

\* No sample of S is NaN.
Finite(S) == \A i \in DOMAIN S : S[i] # NaN

\* U(i): the steps into samples 2..i that rise by d or more (positions
\* counted from 1).
Ups(S, d, i) == Cardinality({k \in 2..i : S[k] - S[k - 1] >= d})

\* D(i): the steps into samples 2..i that drop by d or more.
Downs(S, d, i) == Cardinality({k \in 2..i : S[k - 1] - S[k] >= d})

\* |a|
Abs(a) == IF a < 0 THEN 0 - a ELSE a

\* unwrap_phase has returned and its output has not been touched since.
Unwrapped == (pc = "done" /\ op = "unwrap_phase") \/ pc = "normalize"

\* The output of unwrap_phase is there to look at: during the scan (its
\* first `index` samples are final) and once it has returned.
OutVisible == pc = "unwrap" \/ Unwrapped

\* The output array of unwrap_phase.
out == heap[nvec]

\* C1: every sample the scan has produced is the raw sample plus offset times
\* (drops so far - rises so far), the step into the sample itself counted
\* and all steps measured on the raw input; after the return this covers the
\* whole sequence.
C1_Closed_Form ==
    (OutVisible /\ Finite(arg)) =>
        /\ \A i \in 1..index :
              out[i] = arg[i] + offset * (Downs(arg, discont, i) - Ups(arg, discont, i))
        /\ Unwrapped => index = Len(arg)
        /\ index >= 1 => out[1] = arg[1]

\* C1 witness: a direct call has returned a sequence with a rise and a drop
\* of at least discont, after a first correction that makes the corrected
\* and the raw previous value differ.
C1_Witness ==
    /\ pc = "done" /\ op = "unwrap_phase" /\ offset # 0
    /\ Len(arg) = 4
    /\ Ups(arg, discont, 2) = 1
    /\ Downs(arg, discont, 4) >= 1
    /\ Ups(arg, discont, 4) = 2

\* No two consecutive samples of S differ by d or more.
NoJumps(S, d) == \A i \in 2..Len(S) : Abs(S[i] - S[i - 1]) < d

\* C2: on an input without a step of discont or more the accumulated offset
\* stays 0 through the scan and the output equals the input, whatever the
\* offset.
C2_No_Jump_Identity ==
    (OutVisible /\ Finite(arg) /\ NoJumps(arg, discont)) =>
        /\ total_offset = 0
        /\ out = arg

\* C2 witness: a direct call with a non-zero offset has returned a sequence
\* that moves, by less than discont each step.
C2_Witness ==
    /\ pc = "done" /\ op = "unwrap_phase" /\ offset # 0
    /\ Len(arg) = 3 /\ arg[1] # arg[2] /\ arg[2] # arg[3]
    /\ NoJumps(arg, discont)

\* C3: the output is as long as the input at every point of the scan and
\* after it; the scan has written positions 1..index and no other
\* (positions beyond index still hold the copied input), index moves in step
\* with the iterator, and at the return every sample has been visited.
C3_Same_Length ==
    /\ OutVisible => Len(out) = Len(arg)
    /\ pc = "unwrap" =>
          /\ index = it /\ index <= Len(arg)
          /\ \A i \in (index + 1)..Len(arg) : out[i] = arg[i]
    /\ Unwrapped => index = Len(arg)
    /\ (pc = "done" /\ op = "unwrap_phase") => Len(heap[result.data]) = Len(given[1])

\* C3 witness: a direct call has returned a sequence of full length in which
\* corrections were applied.
C3_Witness ==
    /\ pc = "done" /\ op = "unwrap_phase"
    /\ Len(arg) = MaxLen /\ total_offset # 0
    /\ Len(heap[result.data]) = MaxLen

\* The objects the caller owns: the arguments of the call.
CallerOwned == 1..Len(given)

\* C4: the caller's arguments hold the values they held at the call, at every
\* point of every operation; unwrap_phase leaves the array it was handed
\* unchanged (the caller's sequence, or the wrapped phase inside
\* phase_from_polarizations) and works on another object; what is returned
\* is none of the arguments.
C4_Inputs_Unchanged ==
    /\ \A k \in CallerOwned : heap[k] = given[k]
    /\ vec # 0 => (heap[vec] = arg /\ nvec # vec)
    /\ pc = "done" => result.data \notin CallerOwned
    /\ (pc = "done" /\ op = "unwrap_phase") => result.data # vec

\* C4 witness: phase_from_polarizations has returned after unwrap_phase
\* applied a correction and the normalisation subtracted a non-zero first
\* value.
C4_Witness ==
    /\ pc = "done" /\ op = "phase_from_polarizations"
    /\ total_offset # 0
    /\ Finite(arg) /\ arg[1] # 0
    /\ heap[p] # arg

\* C5: a step of exactly discont is a discontinuity.  [0, d, 2d] unwraps to
\* [0, d - offset, 2d - 2 offset]; [0, 1, 2] with discont 0.7 and offset 1
\* (in tenths) unwraps to [0, 0, 0]; and wherever a sample lies exactly
\* discont below (above) the one before it, the correction grows (shrinks)
\* by exactly one offset at that sample.
C5_Threshold_Inclusive ==
    /\ (Unwrapped /\ arg = <<0, discont, 2 * discont>>) =>
          out = <<0, discont - offset, 2 * discont - 2 * offset>>
    /\ (Unwrapped /\ arg = <<0, 10, 20>> /\ discont = 7 /\ offset = 10) =>
          out = <<0, 0, 0>>
    /\ (OutVisible /\ Finite(arg)) =>
          \A i \in 2..index :
             /\ arg[i - 1] - arg[i] = discont =>
                   out[i] - arg[i] = (out[i - 1] - arg[i - 1]) + offset
             /\ arg[i] - arg[i - 1] = discont =>
                   out[i] - arg[i] = (out[i - 1] - arg[i - 1]) - offset

\* C5 witness: [0, d, 2d] has been unwrapped with threshold d and a non-zero
\* offset.
C5_Witness ==
    /\ pc = "done" /\ op = "unwrap_phase"
    /\ discont > 0 /\ offset # 0
    /\ arg = <<0, discont, 2 * discont>>

\* C6: a drop of discont or more into sample i followed at once by a rise of
\* the same size leaves the accumulated offset after sample i+1 where it was
\* after sample i-1, whatever came before.
C6_Round_Trip ==
    (OutVisible /\ Finite(arg) /\ discont > 0) =>
        \A i \in 2..(index - 1) :
           (arg[i - 1] - arg[i] >= discont /\ arg[i + 1] - arg[i] = arg[i - 1] - arg[i]) =>
               /\ out[i + 1] - arg[i + 1] = out[i - 1] - arg[i - 1]
               /\ index = i + 1 => total_offset = out[i - 1] - arg[i - 1]

\* C6 witness: the scan has just processed a drop and an equal rise that
\* follow a prefix with a correction of its own.
C6_Witness ==
    /\ pc = "unwrap" /\ index = 4 /\ offset # 0 /\ Finite(arg)
    /\ arg[2] - arg[1] >= discont
    /\ arg[2] - arg[3] >= discont
    /\ arg[4] - arg[3] = arg[2] - arg[3]
    /\ out[2] # arg[2]
    /\ out[3] = arg[3]

\* phase_from_polarizations has returned.
PhaseDone == pc = "done" /\ op = "phase_from_polarizations"

\* C7: on non-empty inputs of equal length whose wrapped phase is a number at
\* every sample, the phase returned has the length of the inputs, starts at
\* exactly 0 and is nowhere negative.
C7_Phase_Zero_Based_NonNegative ==
    (PhaseDone /\ Finite(heap[p_wrapped])) =>
        LET r == heap[result.data]
        IN /\ Len(r) = Len(given[1])
           /\ Len(r) >= 1
           /\ r[1] = 0
           /\ \A i \in 1..Len(r) : r[i] # NaN /\ r[i] >= 0

\* C7 witness: a phase has been returned whose unwrapped, normalised value
\* was negative somewhere and whose first wrapped value was not 0.
C7_Witness ==
    /\ PhaseDone /\ Finite(heap[p_wrapped])
    /\ heap[p_wrapped][1] # 0
    /\ \E i \in 1..Len(heap[p]) : heap[p][i] < 0

\* C8 as claimed: the phase returned starts at 0 and never decreases.
C8_Phase_Increasing ==
    (PhaseDone /\ Finite(heap[p_wrapped])) =>
        LET r == heap[result.data]
        IN /\ r[1] = 0
           /\ \A i \in 2..Len(r) : r[i] >= r[i - 1]

\* amplitude_from_polarizations has returned.
AmpDone == pc = "done" /\ op = "amplitude_from_polarizations"

\* C9: the amplitude has the length of the inputs; each sample a[i] is
\* non-negative and its square is h_plus[i]^2 + h_cross[i]^2; the result
\* carries h_plus's sampling interval and start epoch.
C9_Amplitude_Norm ==
    AmpDone =>
        LET a == heap[result.data]
            hp == given[1]
            hc == given[2]
        IN /\ Len(a) = Len(hp)
           /\ \A i \in 1..Len(a) :
                 /\ a[i].sgn >= 0
                 /\ a[i].sgn = 0 <=> a[i].sq = 0
                 /\ a[i].sq = hp[i] * hp[i] + hc[i] * hc[i]
           /\ result.delta_t = h_plus.delta_t
           /\ result.epoch = h_plus.epoch

\* C9 witness: h_plus = [1, 3], h_cross = [2, 4] has given [sqrt(5), 5], with
\* h_cross's interval and epoch different from h_plus's.
C9_Witness ==
    /\ AmpDone
    /\ Len(given[1]) = 2
    /\ given[1] = <<1, 3>> /\ given[2] = <<2, 4>>
    /\ heap[result.data] = <<Surd(1, 5), Real(5)>>
    /\ h_cross.delta_t # h_plus.delta_t /\ h_cross.epoch # h_plus.epoch

\* C10: with discont = 0.7 pi and offset = pi, on a wrapped phase within
\* [-pi/2, pi/2], every step of 0.7 pi or more is corrected by exactly one
\* pi and no two consecutive samples of the output differ by 0.7 pi or more.
C10_Phase_Continuous ==
    (pc = "normalize" /\ Finite(arg)) =>
        /\ discont = (7 * LAL_PI) \div 10
        /\ \A i \in 1..Len(arg) : Abs(2 * arg[i]) <= LAL_PI
        /\ \A i \in 2..Len(arg) :
              /\ Abs(out[i] - out[i - 1]) < discont
              /\ arg[i] - arg[i - 1] >= discont =>
                    out[i] - out[i - 1] = arg[i] - arg[i - 1] - LAL_PI
              /\ arg[i - 1] - arg[i] >= discont =>
                    out[i] - out[i - 1] = arg[i] - arg[i - 1] + LAL_PI
        /\ NoJumps(out, discont)

\* C10 witness: a wrapped phase with a rise and a drop of 0.7 pi or more has
\* been unwrapped.
C10_Witness ==
    /\ pc = "normalize" /\ Finite(arg)
    /\ Ups(arg, discont, Len(arg)) >= 1
    /\ Downs(arg, discont, Len(arg)) >= 1

====
